---- MODULE Spec2Model ----
(***************************************************************************)
(* A model of the SPHINCS+-style signature core of                         *)
(* challenges/challenge-9/sphincs_plus/sphincs_plus.py.                    *)
(*                                                                         *)
(* Byte strings are sequences of blocks <<tag, length, payload>>:          *)
(*   <<"bytes", l, <<b1..bl>>>>   literal bytes (addresses, messages)      *)
(*   <<"rand",  l, <<id>>>>       l bytes drawn from os.urandom            *)
(*   <<"H",     l, data>>         l bytes of hash output over the byte     *)
(*                                string data (an ideal, injective hash)   *)
(*   <<"xor",   l, <<a, b>>>>     the byte-wise XOR of byte strings a, b   *)
(*   <<"part",  l, <<blk, off>>>> l bytes of block blk from offset off     *)
(* Two byte strings are equal in the model exactly when the code would     *)
(* compare them equal under a collision-free hash.                         *)
(***************************************************************************)
EXTENDS Integers, Sequences, FiniteSets, TLC

VARIABLES self, private_key, public_key, sign_log, sign_call, verify_call,
          wots_test, fors_test, helper_call

vars == <<self, private_key, public_key, sign_log, sign_call, verify_call,
          wots_test, fors_test, helper_call>>

(***************************************************************************)
(* Bounds of the model.                                                    *)
(***************************************************************************)
MaxN == 1
MaxW == 4
MaxK == 4
MaxForsHeight == 2
MaxSeed == 2
MaxDigestLen == 1
MaxByteIdx == 5
MaxLogW == 3

(***************************************************************************)
(* Integer helpers (Python int semantics on the values the model reaches). *)
(***************************************************************************)
Min(a, b) == IF a <= b THEN a ELSE b

Abs(v) == IF v < 0 THEN -v ELSE v

RECURSIVE Pow(_, _)
Pow(b, e) == IF e <= 0 THEN 1 ELSE b * Pow(b, e - 1)

\* int.bit_length(): the number of bits of |v|
RECURSIVE BitLength(_)
BitLength(v) == IF Abs(v) = 0 THEN 0 ELSE 1 + BitLength(Abs(v) \div 2)

\* a & b for a, b >= 0
RECURSIVE BitAnd(_, _)
BitAnd(a, b) ==
    IF a = 0 \/ b = 0 THEN 0
    ELSE (IF a % 2 = 1 /\ b % 2 = 1 THEN 1 ELSE 0) + 2 * BitAnd(a \div 2, b \div 2)

\* v >> s for v >= 0
ShiftRight(v, s) == v \div Pow(2, s)

\* v.to_bytes(len, 'big')
ToBytes(v, len) == [i \in 1..len |-> (v \div Pow(256, len - i)) % 256]

\* sum of a sequence of integers
RECURSIVE SumFrom(_, _)
SumFrom(s, i) == IF i > Len(s) THEN 0 ELSE s[i] + SumFrom(s, i + 1)

SumSeq(s) == SumFrom(s, 1)

(***************************************************************************)
(* Byte strings.                                                           *)
(***************************************************************************)
Bytes(b) == IF b = <<>> THEN <<>> ELSE << <<"bytes", Len(b), b>> >>

\* len(s)
BLen(s) == SumSeq([i \in 1..Len(s) |-> s[i][2]])

\* TLC evaluates the argument of an operator where it is first used: Known(s)
\* uses s, and holds of every byte string
Known(s) == Len(s) >= 0

\* a + b on bytes: adjacent literal blocks merge into one
Cat(a, b) ==
    IF a = <<>> THEN b
    ELSE IF b = <<>> THEN a
    ELSE IF a[Len(a)][1] = "bytes" /\ b[1][1] = "bytes"
         THEN SubSeq(a, 1, Len(a) - 1)
              \o << <<"bytes", a[Len(a)][2] + b[1][2], a[Len(a)][3] \o b[1][3]>> >>
              \o Tail(b)
         ELSE a \o b

\* b''.join(list)
RECURSIVE JoinFrom(_, _)
JoinFrom(list, i) == IF i > Len(list) THEN <<>> ELSE Cat(list[i], JoinFrom(list, i + 1))

Join(list) == JoinFrom(list, 1)

\* len bytes of block blk starting at offset off (0 < len, off + len <= blk[2])
SubBlock(blk, off, len) ==
    IF off = 0 /\ len = blk[2] THEN blk
    ELSE IF blk[1] = "bytes" THEN <<"bytes", len, SubSeq(blk[3], off + 1, off + len)>>
    ELSE IF blk[1] = "part" THEN <<"part", len, <<blk[3][1], blk[3][2] + off>>>>
    ELSE <<"part", len, <<blk, off>>>>

RECURSIVE Take(_, _)
Take(s, c) ==
    IF c <= 0 \/ s = <<>> THEN <<>>
    ELSE IF Head(s)[2] <= c THEN <<Head(s)>> \o Take(Tail(s), c - Head(s)[2])
    ELSE <<SubBlock(Head(s), 0, c)>>

RECURSIVE Drop(_, _)
Drop(s, c) ==
    IF c <= 0 \/ s = <<>> THEN s
    ELSE IF Head(s)[2] <= c THEN Drop(Tail(s), c - Head(s)[2])
    ELSE <<SubBlock(Head(s), c, Head(s)[2] - c)>> \o Tail(s)

\* s[a:b] for 0 <= a, 0 <= b (Python clips both ends to len(s)); when every
\* block is l bytes long and a and b are multiples of l, the slice is a run of
\* whole blocks
Slice(s, a, b) ==
    IF s = <<>> \/ b <= a THEN <<>>
    ELSE IF (\A i \in 1..Len(s) : s[i][2] = s[1][2]) /\ a % s[1][2] = 0 /\ b % s[1][2] = 0
    THEN SubSeq(s, (a \div s[1][2]) + 1, Min(b \div s[1][2], Len(s)))
    ELSE Take(Drop(s, a), b - a)

\* bytes(x ^ y for x, y in zip(a, b)): as long as the shorter operand
Xor(a, b) ==
    IF Min(BLen(a), BLen(b)) = 0 THEN <<>>
    ELSE << <<"xor", Min(BLen(a), BLen(b)), <<a, b>>>> >>

(***************************************************************************)
(* The bytes of a hash output.  The hash is opaque: its output bytes are   *)
(* an arbitrary fixed function of its input, which reads the input down to *)
(* two levels of nesting.                                                  *)
(***************************************************************************)
RECURSIVE FPStr(_, _, _)
RECURSIVE FPBlk(_, _)
FPBlk(blk, d) ==
    IF blk[1] = "bytes" THEN (SumSeq(blk[3]) * 7 + blk[3][1] + blk[2]) % 65521
    ELSE IF blk[1] = "rand" THEN (blk[3][1] * 131 + blk[2]) % 65521
    ELSE IF d = 0 THEN blk[2] + 3
    ELSE IF blk[1] = "H" THEN (FPStr(blk[3], 1, d - 1) * 31 + blk[2]) % 65521
    ELSE IF blk[1] = "xor"
    THEN (FPStr(blk[3][1], 1, d - 1) * 3 + FPStr(blk[3][2], 1, d - 1) * 5) % 65521
    ELSE (FPBlk(blk[3][1], d - 1) * 3 + blk[3][2] + 1) % 65521
FPStr(s, i, d) ==
    IF i > Len(s) THEN 17
    ELSE (FPBlk(s[i], d) * (2 * i + 1) + 7 * FPStr(s, i + 1, d)) % 65521

\* byte off of a hash output whose input has fingerprint fp
OracleByte(fp, off) == (((fp % 251) + 1) * (off + 1) * 37) % 256

\* list(blk): the bytes of a block as integers
BlockBytes(blk) ==
    IF blk[1] = "bytes" THEN blk[3]
    ELSE IF blk[1] = "part"
    THEN LET fp == FPBlk(blk[3][1], 2)
         IN [i \in 1..blk[2] |-> OracleByte(fp, blk[3][2] + i - 1)]
    ELSE LET fp == FPBlk(blk, 2)
         IN [i \in 1..blk[2] |-> OracleByte(fp, i - 1)]

\* list(s): the bytes of a byte string as integers
RECURSIVE ByteList(_)
ByteList(s) == IF s = <<>> THEN <<>> ELSE BlockBytes(Head(s)) \o ByteList(Tail(s))

(***************************************************************************)
(* SPHINCSPlus.__init__: the parameters and the constants derived from     *)
(* them.                                                                   *)
(***************************************************************************)
log2(value) == BitLength(value - 1)

Construct(n, h, d, k, w, t, robust) ==
    LET wots_logw == log2(w)
        wots_len1 == (8 * n) \div wots_logw
        wots_len2 == (log2(wots_len1 * (w - 1)) \div wots_logw) + 1
        fors_height == log2(t)
    IN [n |-> n, h |-> h, d |-> d, k |-> k, w |-> w, t |-> t, robust |-> robust,
        wots_logw |-> wots_logw,
        wots_len1 |-> wots_len1,
        wots_len2 |-> wots_len2,
        wots_len |-> wots_len1 + wots_len2,
        tree_height |-> h \div d,
        fors_height |-> fors_height,
        fors_trees |-> k,
        message_digest_len |-> (k * fors_height) \div 8]

(***************************************************************************)
(* Tweakable hash layer.                                                   *)
(***************************************************************************)
\* _hash(data, n): shake_256(data).digest(n)
hashN(data, n) == IF n = 0 THEN <<>> ELSE << <<"H", n, data>> >>

hash(data) == hashN(data, self.n)

\* _prf(key, addr, msg); msg = <<>> stands for both None and b''
prf(key, addr, msg) == hash(Cat(Cat(key, addr), msg))

h_msg(r, pk_seed, pk_root, msg) ==
    hashN(Cat(Cat(Cat(r, pk_seed), pk_root), msg), self.message_digest_len)

thash(left, right, pk_seed, addr) ==
    IF self.robust
    THEN LET left_masked == Xor(left, prf(pk_seed, Cat(addr, Bytes(<<0>>)), <<>>))
             right_masked == Xor(right, prf(pk_seed, Cat(addr, Bytes(<<1>>)), <<>>))
         IN hash(Cat(Cat(Cat(pk_seed, addr), left_masked), right_masked))
    ELSE hash(Cat(Cat(Cat(pk_seed, addr), left), right))

f(in_data, pk_seed, addr) ==
    IF self.robust
    THEN LET masked == Xor(in_data, prf(pk_seed, Cat(addr, Bytes(<<0>>)), <<>>))
         IN hash(Cat(Cat(pk_seed, addr), masked))
    ELSE hash(Cat(Cat(pk_seed, addr), in_data))

\* _chain raises ValueError("Chain index out of bounds")
chain_raises(i, steps) == steps # 0 /\ i + steps > self.w

RECURSIVE chain_loop(_, _, _, _, _)
chain_loop(out, j, end, pk_seed, addr) ==
    IF j >= end \/ ~Known(out) THEN out
    ELSE chain_loop(f(out, pk_seed, Cat(addr, Bytes(ToBytes(j, 1)))), j + 1, end, pk_seed, addr)

\* a faulty _chain: step j hashes under the position counted from the start of
\* the call, not from the start of the chain
chain_relative_addr(x, i, steps, pk_seed, addr) ==
    IF steps = 0 THEN x ELSE chain_loop(x, 0, steps, pk_seed, addr)

\* _chain(x, i, steps, pk_seed, addr), where it does not raise
chain(x, i, steps, pk_seed, addr) ==
    IF steps = 0 THEN x ELSE chain_loop(x, i, i + steps, pk_seed, addr)

(***************************************************************************)
(* WOTS+ one-time signature.                                               *)
(***************************************************************************)
\* bit p (least significant = 0) of int.from_bytes(b, 'big'), b a list of bytes
IntBit(b, p) ==
    IF p \div 8 >= Len(b) THEN 0
    ELSE (b[Len(b) - (p \div 8)] \div Pow(2, p % 8)) % 2

\* (int.from_bytes(b, 'big') >> shift) & ((1 << nbits) - 1)
RECURSIVE IntBits(_, _, _)
IntBits(b, shift, nbits) ==
    IF nbits <= 0 THEN 0
    ELSE IntBit(b, shift) + 2 * IntBits(b, shift + 1, nbits - 1)

base_w(msg) ==
    LET b == ByteList(msg)
    IN [i \in 1..self.wots_len1 |->
           IntBits(b, (self.wots_len1 - 1 - (i - 1)) * self.wots_logw, self.wots_logw)]

\* a faulty variant of the signer's lengths: the checksum digits are written
\* most significant first
wots_lengths_msb_first(msg) ==
    LET msg_base_w == base_w(msg)
        csum == SumSeq([i \in 1..Len(msg_base_w) |-> self.w - 1 - msg_base_w[i]])
        csum_base_w == [i \in 1..self.wots_len2 |->
                           BitAnd(ShiftRight(csum, self.wots_logw * (self.wots_len2 - i)),
                                  self.w - 1)]
    IN msg_base_w \o csum_base_w

\* the chain lengths _wots_sign derives from msg: message digits, then checksum digits
wots_sign_lengths(msg) ==
    LET msg_base_w == base_w(msg)
        csum == SumSeq([i \in 1..Len(msg_base_w) |-> self.w - 1 - msg_base_w[i]])
        csum_base_w == [i \in 1..self.wots_len2 |->
                           BitAnd(ShiftRight(csum, self.wots_logw * (i - 1)), self.w - 1)]
    IN msg_base_w \o csum_base_w

\* a faulty variant of the verifier's lengths: the checksum sums the digits
\* themselves instead of their complements w - 1 - digit
wots_lengths_plain_sum(msg) ==
    LET msg_base_w == base_w(msg)
        csum == SumSeq(msg_base_w)
        csum_base_w == [i \in 1..self.wots_len2 |->
                           BitAnd(ShiftRight(csum, self.wots_logw * (i - 1)), self.w - 1)]
    IN msg_base_w \o csum_base_w

\* the chain lengths _wots_pk_from_sig derives from msg
wots_pk_from_sig_lengths(msg) ==
    LET msg_base_w == base_w(msg)
        csum == SumSeq([i \in 1..Len(msg_base_w) |-> self.w - 1 - msg_base_w[i]])
        csum_base_w == [i \in 1..self.wots_len2 |->
                           BitAnd(ShiftRight(csum, self.wots_logw * (i - 1)), self.w - 1)]
    IN msg_base_w \o csum_base_w

chain_addr(addr, i) == Cat(addr, Bytes(ToBytes(i, 2)))

wots_sk_gen(sk_seed, addr) ==
    [i \in 1..self.wots_len |-> prf(sk_seed, chain_addr(addr, i - 1), <<>>)]

wots_pk_gen(sk_seed, pk_seed, addr) ==
    LET sk_list == wots_sk_gen(sk_seed, addr)
    IN Join([i \in 1..self.wots_len |->
                chain(sk_list[i], 0, self.w - 1, pk_seed, chain_addr(addr, i - 1))])

wots_sign_raises(msg) ==
    LET lengths == wots_sign_lengths(msg)
    IN \E i \in 1..self.wots_len : chain_raises(0, lengths[i])

\* a faulty variant of _wots_sign: the checksum chains are left out
wots_sign_no_checksum(msg, sk_seed, pk_seed, addr) ==
    LET lengths == wots_sign_lengths(msg)
        sk_list == wots_sk_gen(sk_seed, addr)
    IN Join([i \in 1..self.wots_len1 |->
                chain(sk_list[i], 0, lengths[i], pk_seed, chain_addr(addr, i - 1))])

wots_sign(msg, sk_seed, pk_seed, addr) ==
    LET lengths == wots_sign_lengths(msg)
        sk_list == wots_sk_gen(sk_seed, addr)
    IN Join([i \in 1..self.wots_len |->
                chain(sk_list[i], 0, lengths[i], pk_seed, chain_addr(addr, i - 1))])

wots_pk_from_sig_raises(msg) ==
    LET lengths == wots_pk_from_sig_lengths(msg)
    IN \E i \in 1..self.wots_len : chain_raises(lengths[i], self.w - 1 - lengths[i])

wots_pk_from_sig(sig, msg, pk_seed, addr) ==
    LET lengths == wots_pk_from_sig_lengths(msg)
        sig_components == [i \in 1..self.wots_len |->
                              Slice(sig, (i - 1) * self.n, i * self.n)]
    IN Join([i \in 1..self.wots_len |->
                chain(sig_components[i], lengths[i], self.w - 1 - lengths[i],
                      pk_seed, chain_addr(addr, i - 1))])

(***************************************************************************)
(* FORS few-time signature.                                                *)
(***************************************************************************)
B_tree == <<116, 114, 101, 101>>
B_leaf == <<108, 101, 97, 102>>
B_hash == <<104, 97, 115, 104>>
B_node == <<110, 111, 100, 101>>
B_up == <<117, 112>>

fors_sk_gen(sk_seed, addr) == prf(sk_seed, addr, <<>>)

tree_addr(addr, tree_idx) == Cat(addr, Bytes(B_tree \o ToBytes(tree_idx, 1)))

leaf_addr(taddr, leaf_idx) == Cat(taddr, Bytes(B_leaf \o ToBytes(leaf_idx, 2)))

\* the leaves of one FORS tree, as _fors_pk_gen and _fors_sign both compute them
fors_leaves(sk_seed, pk_seed, taddr) ==
    [j \in 1..self.t |->
        f(fors_sk_gen(sk_seed, leaf_addr(taddr, j - 1)), pk_seed,
          Cat(leaf_addr(taddr, j - 1), Bytes(B_hash)))]

\* a faulty pass of _compute_root: the loop runs one pair too far, so that a level
\* of two nodes yields two nodes again
root_next_level_one_more(nodes, pk_seed, addr) ==
    [p \in 1..((Len(nodes) + 2) \div 2) |->
        LET i == 2 * (p - 1)
        IN IF i + 1 >= Len(nodes) THEN nodes[Min(i + 1, Len(nodes))]
           ELSE thash(nodes[i + 1], nodes[i + 2], pk_seed, Cat(addr, Bytes(ToBytes(i, 2))))]

\* one pass of _compute_root over a level
root_next_level(nodes, pk_seed, addr) ==
    [p \in 1..((Len(nodes) + 1) \div 2) |->
        LET i == 2 * (p - 1)
        IN IF i + 1 >= Len(nodes) THEN nodes[i + 1]
           ELSE thash(nodes[i + 1], nodes[i + 2], pk_seed, Cat(addr, Bytes(ToBytes(i, 2))))]

RECURSIVE compute_root(_, _, _)
compute_root(nodes, pk_seed, addr) ==
    IF Len(nodes) = 1 THEN nodes[1]
    ELSE compute_root(root_next_level(nodes, pk_seed, addr), pk_seed, Cat(addr, Bytes(B_up)))

fors_pk_gen(sk_seed, pk_seed, addr) ==
    hash(Join([tree \in 1..self.k |->
                  compute_root(fors_leaves(sk_seed, pk_seed, tree_addr(addr, tree - 1)),
                               pk_seed,
                               Cat(tree_addr(addr, tree - 1), Bytes(B_node)))]))

\* the levels _compute_root passes through, the leaves first, the root last
RECURSIVE root_levels(_, _, _)
root_levels(nodes, pk_seed, addr) ==
    IF Len(nodes) = 1 THEN <<nodes>>
    ELSE <<nodes>> \o root_levels(root_next_level(nodes, pk_seed, addr), pk_seed,
                                  Cat(addr, Bytes(B_up)))

\* a faulty pass of _compute_auth_path: each pair is hashed right node first
auth_next_level_swapped(nodes, pk_seed, addr) ==
    [p \in 1..((Len(nodes) + 1) \div 2) |->
        LET i == 2 * (p - 1)
        IN IF i + 1 >= Len(nodes) THEN nodes[i + 1]
           ELSE thash(nodes[i + 2], nodes[i + 1], pk_seed, Cat(addr, Bytes(ToBytes(i, 2))))]

\* _compute_auth_path without the single-node base case: the node itself is appended
auth_path_single_node(leaf_idx, nodes, pk_seed, addr) == <<nodes[leaf_idx + 1]>>

\* one pass of _compute_auth_path over a level
auth_next_level(nodes, pk_seed, addr) ==
    [p \in 1..((Len(nodes) + 1) \div 2) |->
        LET i == 2 * (p - 1)
        IN IF i + 1 >= Len(nodes) THEN nodes[i + 1]
           ELSE thash(nodes[i + 1], nodes[i + 2], pk_seed, Cat(addr, Bytes(ToBytes(i, 2))))]

\* the authentication path, a list of nodes ordered leaf to root
RECURSIVE compute_auth_path(_, _, _, _)
compute_auth_path(leaf_idx, nodes, pk_seed, addr) ==
    IF Len(nodes) = 1 THEN <<>>
    ELSE LET auth_idx == IF leaf_idx % 2 = 0 THEN leaf_idx + 1 ELSE leaf_idx - 1
             first == IF auth_idx < Len(nodes) THEN nodes[auth_idx + 1]
                      ELSE nodes[leaf_idx + 1]
         IN <<first>> \o compute_auth_path(leaf_idx \div 2,
                                           auth_next_level(nodes, pk_seed, addr),
                                           pk_seed, Cat(addr, Bytes(B_up)))

\* (b[j // 8] >> (7 - j % 8)) & 1, b a list of bytes
\* a faulty bit read: bit 0 is the least significant bit of byte 0
msg_bit_lsb_first(b, j) == (b[(j \div 8) + 1] \div Pow(2, j % 8)) % 2

MsgBit(b, j) == (b[(j \div 8) + 1] \div Pow(2, 7 - (j % 8))) % 2

RECURSIVE BitsToIdx(_, _, _, _)
BitsToIdx(b, j, end_bit, idx) ==
    IF j >= end_bit THEN idx
    ELSE BitsToIdx(b, j + 1, end_bit, idx * 2 + MsgBit(b, j))

\* _fors_sign raises ValueError("Message is too short to extract all tree indices")
fors_sign_raises(msg) == self.k * self.fors_height > BLen(msg) * 8

fors_sign_indices(msg) ==
    LET total_bits == BLen(msg) * 8
        b == ByteList(msg)
    IN [i \in 1..self.k |->
           LET start_bit == (i - 1) * self.fors_height
               end_bit == Min(start_bit + self.fors_height, total_bits)
           IN BitsToIdx(b, start_bit, end_bit, 0) % self.t]

fors_sign(msg, sk_seed, pk_seed, addr) ==
    LET indices == fors_sign_indices(msg)
    IN Join([i \in 1..self.k |->
                LET taddr == tree_addr(addr, i - 1)
                    sk == fors_sk_gen(sk_seed, leaf_addr(taddr, indices[i]))
                    leaves == fors_leaves(sk_seed, pk_seed, taddr)
                    auth_path == compute_auth_path(indices[i], leaves, pk_seed,
                                                   Cat(taddr, Bytes(B_node)))
                IN Cat(sk, Join(auth_path))])

\* _fors_verify raises IndexError: msg[byte_idx] beyond the end of msg
fors_verify_raises(msg) ==
    \E j \in 0..(self.k * self.fors_height - 1) : j \div 8 >= BLen(msg)

fors_verify_indices(msg) ==
    LET b == ByteList(msg)
    IN [i \in 1..self.k |->
           BitsToIdx(b, (i - 1) * self.fors_height, i * self.fors_height, 0) % self.t]

\* the address under which the path fold hashes at level i (0-based)
auth_node_addr(addr, node_idx, i) ==
    Cat(addr, Bytes(ToBytes(ShiftRight(node_idx, i) - (ShiftRight(node_idx, i) % 2), 2)))

\* a faulty fold: the side of the running node is taken from bit 0 of the leaf
\* index at every level
RECURSIVE root_from_auth_bit0(_, _, _, _, _, _)
root_from_auth_bit0(node_idx, node, auth_path, i, pk_seed, addr) ==
    IF i >= Len(auth_path) \/ ~Known(node) THEN node
    ELSE root_from_auth_bit0(
             node_idx,
             IF node_idx % 2 = 1
             THEN thash(auth_path[i + 1], node, pk_seed, auth_node_addr(addr, node_idx, i))
             ELSE thash(node, auth_path[i + 1], pk_seed, auth_node_addr(addr, node_idx, i)),
             auth_path, i + 1, pk_seed, addr)

RECURSIVE root_from_auth_loop(_, _, _, _, _, _)
root_from_auth_loop(node_idx, node, auth_path, i, pk_seed, addr) ==
    IF i >= Len(auth_path) \/ ~Known(node) THEN node
    ELSE root_from_auth_loop(
             node_idx,
             IF ShiftRight(node_idx, i) % 2 = 1
             THEN thash(auth_path[i + 1], node, pk_seed, auth_node_addr(addr, node_idx, i))
             ELSE thash(node, auth_path[i + 1], pk_seed, auth_node_addr(addr, node_idx, i)),
             auth_path, i + 1, pk_seed, addr)

compute_root_from_auth(leaf_idx, leaf, auth_path, pk_seed, addr) ==
    root_from_auth_loop(leaf_idx, leaf, auth_path, 0, pk_seed, addr)

\* the addresses the path folds of _fors_verify hash under: per tree, per level
fors_verify_fold_addrs(msg, addr) ==
    LET indices == fors_verify_indices(msg)
    IN [i \in 1..self.k |->
           [lvl \in 1..log2(self.t) |->
               auth_node_addr(Cat(tree_addr(addr, i - 1), Bytes(B_node)),
                              indices[i], lvl - 1)]]

fors_verify(msg, signature, pk_seed, addr) ==
    LET indices == fors_verify_indices(msg)
        per_tree == (1 + log2(self.t)) * self.n
    IN hash(Join([i \in 1..self.k |->
            LET taddr == tree_addr(addr, i - 1)
                base == (i - 1) * per_tree
                sk == Slice(signature, base, base + self.n)
                node == f(sk, pk_seed, Cat(leaf_addr(taddr, indices[i]), Bytes(B_hash)))
                auth_path == [j \in 1..log2(self.t) |->
                                 Slice(signature, base + j * self.n, base + (j + 1) * self.n)]
            IN compute_root_from_auth(indices[i], node, auth_path, pk_seed,
                                      Cat(taddr, Bytes(B_node)))]))

(***************************************************************************)
(* SPHINCS+ facade.                                                        *)
(***************************************************************************)
B_randomized == <<114, 97, 110, 100, 111, 109, 105, 122, 101, 100>>
B_SPHINCS == <<83, 80, 72, 73, 78, 67, 83, 43, 95>>
ADDR_root == Bytes(B_SPHINCS \o <<114, 111, 111, 116>>)
ADDR_fors == Bytes(B_SPHINCS \o <<102, 111, 114, 115>>)
ADDR_wots == Bytes(B_SPHINCS \o <<119, 111, 116, 115>>)
ADDR_test_fors == Bytes(B_SPHINCS \o <<116, 101, 115, 116, 95, 102, 111, 114, 115>>)
ADDR_test_wots == Bytes(B_SPHINCS \o <<116, 101, 115, 116, 95, 119, 111, 116, 115>>)

\* os.urandom(n): n bytes named by the draw id
urandom(n, id) == << <<"rand", n, <<id>>>> >>

\* a faulty variant of generate_keypair: the root is built from sk_prf
keypair_root_from_prf(sk_seed, sk_prf, pk_seed) ==
    LET root == fors_pk_gen(sk_prf, pk_seed, ADDR_root)
        pk == Cat(pk_seed, root)
    IN [private_key |-> Cat(Cat(sk_seed, sk_prf), pk), public_key |-> pk]

\* generate_keypair() with the three draws of os.urandom given
generate_keypair(sk_seed, sk_prf, pk_seed) ==
    LET root == fors_pk_gen(sk_seed, pk_seed, ADDR_root)
        pk == Cat(pk_seed, root)
    IN [private_key |-> Cat(Cat(sk_seed, sk_prf), pk), public_key |-> pk]

\* a faulty variant of the randomizer: fresh bytes of os.urandom at every call
fresh_randomizer(sk_prf, message) ==
    urandom(self.n, IF sign_log[message].called THEN 2 ELSE 1)

\* the randomizer r of sign
randomizer(sk_prf, message) == prf(sk_prf, Bytes(B_randomized), message)

\* sign(message, private_key): the exception raised ("" for none) and the value returned
sign(message, sk) ==
    LET sk_seed == Slice(sk, 0, self.n)
        sk_prf == Slice(sk, self.n, 2 * self.n)
        pk_seed == Slice(sk, 2 * self.n, 3 * self.n)
        root == Slice(sk, 3 * self.n, 4 * self.n)
        r == randomizer(sk_prf, message)
        message_digest == h_msg(r, pk_seed, root, message)
        fors_sig == fors_sign(message_digest, sk_seed, pk_seed, ADDR_fors)
        fors_pk == fors_verify(message_digest, fors_sig, pk_seed, ADDR_fors)
        wots_sig == wots_sign(fors_pk, sk_seed, pk_seed, ADDR_wots)
    IN IF fors_sign_raises(message_digest)
       THEN [raised |-> "ValueError", value |-> <<>>]
       ELSE IF Known(fors_sig) /\ fors_verify_raises(message_digest)
       THEN [raised |-> "IndexError", value |-> <<>>]
       ELSE IF Known(fors_pk) /\ wots_sign_raises(fors_pk)
       THEN [raised |-> "ValueError", value |-> <<>>]
       ELSE [raised |-> "", value |-> Cat(Cat(r, fors_sig), wots_sig)]

\* the three parts verify slices a signature into
verify_parts(signature) ==
    LET fors_sig_len == self.k * (1 + log2(self.t)) * self.n
        wots_sig_len == self.wots_len * self.n
    IN [r |-> Slice(signature, 0, self.n),
        fors_sig |-> Slice(signature, self.n, self.n + fors_sig_len),
        wots_sig |-> Slice(signature, self.n + fors_sig_len,
                           self.n + fors_sig_len + wots_sig_len)]

\* verify returning True whenever the two roots have the same length
verify_length_only(message, signature, pk) ==
    [raised |-> "",
     value |-> (BLen(hash(verify_parts(signature).wots_sig))
                    = BLen(Slice(pk, self.n, 2 * self.n)))]

\* verify(message, signature, public_key): the exception raised and the boolean returned
verify(message, signature, pk) ==
    LET pk_seed == Slice(pk, 0, self.n)
        root == Slice(pk, self.n, 2 * self.n)
        parts == verify_parts(signature)
        r == parts.r
        message_digest == h_msg(r, pk_seed, root, message)
        fors_sig == parts.fors_sig
        fors_pk == fors_verify(message_digest, fors_sig, pk_seed, ADDR_fors)
        wots_sig == parts.wots_sig
        wots_pk == wots_pk_from_sig(wots_sig, fors_pk, pk_seed, ADDR_wots)
        wots_root == hash(wots_pk)
    IN IF fors_verify_raises(message_digest)
       THEN [raised |-> "IndexError", value |-> FALSE]
       ELSE IF Known(fors_pk) /\ wots_pk_from_sig_raises(fors_pk)
       THEN [raised |-> "ValueError", value |-> FALSE]
       ELSE [raised |-> "", value |-> (wots_root = root)]



(***************************************************************************)
(* test_wots_functions and test_fors_functions, with the seeds, the        *)
(* address and the digest given.                                           *)
(***************************************************************************)
test_wots_functions(sk_seed, pk_seed, addr, message) ==
    LET original_pk == wots_pk_gen(sk_seed, pk_seed, addr)
        wots_sig == wots_sign(message, sk_seed, pk_seed, addr)
        derived_pk == wots_pk_from_sig(wots_sig, message, pk_seed, addr)
    IN IF wots_sign_raises(message) \/ wots_pk_from_sig_raises(message)
       THEN [raised |-> "ValueError", lengths |-> wots_sign_lengths(message),
             sig_len |-> 0, result |-> FALSE]
       ELSE [raised |-> "", lengths |-> wots_sign_lengths(message),
             sig_len |-> BLen(wots_sig), result |-> (original_pk = derived_pk)]

test_fors_functions(sk_seed, pk_seed, addr, message) ==
    LET original_pk == fors_pk_gen(sk_seed, pk_seed, addr)
        fors_sig == fors_sign(message, sk_seed, pk_seed, addr)
        verified_pk == fors_verify(message, fors_sig, pk_seed, addr)
    IN IF fors_sign_raises(message)
       THEN [raised |-> "ValueError", indices |-> <<>>, fold_addrs |-> <<>>,
             sig_len |-> 0, result |-> FALSE]
       ELSE IF fors_verify_raises(message)
       THEN [raised |-> "IndexError", indices |-> <<>>, fold_addrs |-> <<>>,
             sig_len |-> BLen(fors_sig), result |-> FALSE]
       ELSE [raised |-> "", indices |-> fors_verify_indices(message),
             fold_addrs |-> fors_verify_fold_addrs(message, addr),
             sig_len |-> BLen(fors_sig), result |-> (original_pk = verified_pk)]

(***************************************************************************)
(* The instances and inputs of the model.                                  *)
(***************************************************************************)
DefaultN == 16
DefaultH == 64
DefaultD == 8
DefaultK == 10
DefaultW == 16
DefaultT == 64

\* SPHINCSPlus() with every argument left at its default
DefaultParams ==
    Construct(DefaultN, DefaultH, DefaultD, DefaultK, DefaultW, DefaultT, TRUE)

\* instances that vary the FORS side: k trees of t = 2^fh leaves
ForsParams ==
    {Construct(n, DefaultH, DefaultD, k, MaxW, Pow(2, fh), robust) :
        n \in 1..MaxN, k \in 1..MaxK, fh \in 0..MaxForsHeight, robust \in BOOLEAN}

\* instances that vary the WOTS+ side: every Winternitz base from 2 up
WotsParams ==
    {Construct(n, DefaultH, DefaultD, 1, w, 1, robust) :
        n \in 1..MaxN, w \in 2..MaxW, robust \in BOOLEAN}

ParamSets == ForsParams \cup WotsParams \cup {DefaultParams}

MsgAbc == Bytes(<<97, 98, 99>>)
MsgAbd == Bytes(<<97, 98, 100>>)
Messages == {MsgAbc, MsgAbd}

\* the byte values digests are drawn from: 0x00, 0x33, 0x66, 0x99, 0xCC, 0xFF
DigestBytes == {(51 * i) % 256 : i \in 0..MaxByteIdx}

\* the digests of len bytes
Digests(len) == {Bytes(b) : b \in [1..len -> DigestBytes]}

\* the length verify expects of a signature
sig_len == self.n + self.k * (1 + log2(self.t)) * self.n + self.wots_len * self.n

\* a signature of the expected length that no signer produced
junk_signature == [i \in 1..(sig_len \div self.n) |-> urandom(self.n, 0)[1]]

NoSign == [called |-> FALSE, message |-> <<>>, raised |-> "", value |-> <<>>,
           repeat |-> FALSE]
NoVerify == [called |-> FALSE, message |-> <<>>, signature |-> <<>>,
             raised |-> "", value |-> FALSE]
NoTest == [called |-> FALSE]
NoCall == [fn |-> ""]

\* no key generated, nothing called
Idle ==
    /\ private_key = <<>>
    /\ public_key = <<>>
    /\ sign_log = [m \in Messages |-> NoSign]
    /\ sign_call = NoSign
    /\ verify_call = NoVerify
    /\ wots_test = NoTest
    /\ fors_test = NoTest
    /\ helper_call = NoCall

Init == self \in ParamSets /\ Idle

\* the caller generates the key pair of its identity
GenerateKeypair ==
    /\ private_key = <<>>
    /\ \E a \in 1..MaxSeed, b \in 1..MaxSeed, c \in 1..MaxSeed :
          LET kp == generate_keypair(urandom(self.n, a), urandom(self.n, b),
                                     urandom(self.n, c))
          IN /\ private_key' = kp.private_key
             /\ public_key' = kp.public_key
    /\ UNCHANGED <<self, sign_log, sign_call, verify_call, wots_test, fors_test,
                   helper_call>>

\* a faulty sign that stores the length of the digest it computed in the instance
SignStoringDigestLen ==
    /\ private_key # <<>>
    /\ \E m \in Messages :
          LET res == sign(m, private_key)
              call == [called |-> TRUE, message |-> m, raised |-> res.raised,
                       value |-> res.value, repeat |-> sign_log[m].called]
          IN /\ sign_call' = call
             /\ sign_log' = IF sign_log[m].called THEN sign_log
                            ELSE [sign_log EXCEPT ![m] = call]
             /\ self' = [self EXCEPT !.message_digest_len = BLen(res.value)]
    /\ UNCHANGED <<private_key, public_key, verify_call, wots_test, fors_test,
                   helper_call>>

\* the caller signs a message with its private key; sign_log keeps the result of
\* the first call on each message
Sign ==
    /\ private_key # <<>>
    /\ \E m \in Messages :
          LET res == sign(m, private_key)
              call == [called |-> TRUE, message |-> m, raised |-> res.raised,
                       value |-> res.value, repeat |-> sign_log[m].called]
          IN /\ sign_call' = call
             /\ sign_log' = IF sign_log[m].called THEN sign_log
                            ELSE [sign_log EXCEPT ![m] = call]
    /\ UNCHANGED <<self, private_key, public_key, verify_call, wots_test, fors_test,
                   helper_call>>

\* the signatures sign has returned to the caller
held_signatures ==
    {sign_log[m].value : m \in {x \in Messages : sign_log[x].called /\ sign_log[x].raised = ""}}

\* the caller verifies a message against a signature it holds, or against a
\* signature of the right length from elsewhere
Verify ==
    /\ public_key # <<>>
    /\ \E m \in Messages, sig \in {junk_signature} \cup held_signatures :
          LET res == verify(m, sig, public_key)
          IN verify_call' = [called |-> TRUE, message |-> m, signature |-> sig,
                             raised |-> res.raised, value |-> res.value]
    /\ UNCHANGED <<self, private_key, public_key, sign_log, sign_call,
                   wots_test, fors_test, helper_call>>

Next == GenerateKeypair \/ Sign \/ Verify

Spec == Init /\ [][Next]_vars

\* a caller that only generates its key pair
NextKeygen == GenerateKeypair

SpecKeygen == Init /\ [][NextKeygen]_vars

\* a signer: it generates its key pair and signs
NextSign == GenerateKeypair \/ Sign

SpecSign == Init /\ [][NextSign]_vars

(***************************************************************************)
(* The WOTS+ functions on their own.                                       *)
(***************************************************************************)
WotsTest ==
    /\ ~wots_test.called
    /\ \E a \in 1..MaxSeed, c \in 1..MaxSeed, addr \in {ADDR_test_wots, ADDR_wots},
          message \in Digests(self.n) :
          LET res == test_wots_functions(urandom(self.n, a), urandom(self.n, c),
                                         addr, message)
          IN wots_test' = [called |-> TRUE, sk_seed |-> urandom(self.n, a),
                           pk_seed |-> urandom(self.n, c), addr |-> addr,
                           message |-> message, raised |-> res.raised,
                           lengths |-> res.lengths, sig_len |-> res.sig_len,
                           result |-> res.result]
    /\ UNCHANGED <<self, private_key, public_key, sign_log, sign_call, verify_call,
                   fors_test, helper_call>>

InitWots == self \in WotsParams /\ Idle

NextWots == WotsTest

SpecWots == InitWots /\ [][NextWots]_vars

(***************************************************************************)
(* The FORS functions on their own.                                        *)
(***************************************************************************)
ForsTest ==
    /\ ~fors_test.called
    /\ \E a \in 1..MaxSeed, c \in 1..MaxSeed, addr \in {ADDR_test_fors, ADDR_fors},
          len \in 0..MaxDigestLen :
       \E message \in Digests(len) :
          LET res == test_fors_functions(urandom(self.n, a), urandom(self.n, c),
                                         addr, message)
          IN fors_test' = [called |-> TRUE, sk_seed |-> urandom(self.n, a),
                           pk_seed |-> urandom(self.n, c), addr |-> addr,
                           message |-> message, raised |-> res.raised,
                           indices |-> res.indices,
                           fold_addrs |-> res.fold_addrs,
                           sig_len |-> res.sig_len, result |-> res.result]
    /\ UNCHANGED <<self, private_key, public_key, sign_log, sign_call, verify_call,
                   wots_test, helper_call>>

InitFors == self \in ForsParams /\ Idle

NextFors == ForsTest

SpecFors == InitFors /\ [][NextFors]_vars

(***************************************************************************)
(* _compute_auth_path and _compute_root on the leaves of one FORS tree.    *)
(***************************************************************************)
AuthPathCall ==
    /\ helper_call.fn = ""
    /\ \E a \in 1..MaxSeed, c \in 1..MaxSeed, leaf_idx \in 0..(self.t - 1) :
          LET taddr == tree_addr(ADDR_test_fors, 0)
              leaves == fors_leaves(urandom(self.n, a), urandom(self.n, c), taddr)
              addr == Cat(taddr, Bytes(B_node))
          IN helper_call' = [fn |-> "auth_path", leaf_idx |-> leaf_idx,
                             sk_seed |-> urandom(self.n, a),
                             pk_seed |-> urandom(self.n, c),
                             path |-> compute_auth_path(leaf_idx, leaves,
                                                        urandom(self.n, c), addr),
                             levels |-> root_levels(leaves, urandom(self.n, c), addr),
                             root |-> compute_root(leaves, urandom(self.n, c), addr)]
    /\ UNCHANGED <<self, private_key, public_key, sign_log, sign_call, verify_call,
                   wots_test, fors_test>>

NextAuthPath == AuthPathCall

SpecAuthPath == InitFors /\ [][NextAuthPath]_vars

(***************************************************************************)
(* _base_w and the chain lengths of _wots_sign on two digests, for every   *)
(* power of two w up to 2^MaxLogW.                                         *)
(***************************************************************************)
PowerParams == {Construct(n, DefaultH, DefaultD, 1, Pow(2, lw), 1, TRUE) :
    n \in 1..MaxN, lw \in 1..MaxLogW}

\* the digest bytes, with two more that differ from the byte 0 in the top bits only
LengthsBytes == DigestBytes \cup {64, 192}

LengthsDigests == {Bytes(b) : b \in [1..self.n -> LengthsBytes]}

InitLengths == self \in PowerParams /\ Idle

WotsLengths ==
    /\ helper_call.fn = ""
    /\ \E msg \in LengthsDigests, other \in LengthsDigests :
          helper_call' = [fn |-> "wots_lengths", msg |-> msg,
                          digits |-> base_w(msg),
                          lengths |-> wots_sign_lengths(msg),
                          other_msg |-> other,
                          other_lengths |-> wots_sign_lengths(other)]
    /\ UNCHANGED <<self, private_key, public_key, sign_log, sign_call, verify_call,
                   wots_test, fors_test>>

NextLengths == WotsLengths

SpecLengths == InitLengths /\ [][NextLengths]_vars

(***************************************************************************)
(* test_fors_functions on the instances with trees of a single leaf.       *)
(***************************************************************************)
InitSingleLeaf == self \in {p \in ForsParams : p.t = 1} /\ Idle

SpecSingleLeaf == InitSingleLeaf /\ [][NextFors]_vars

(***************************************************************************)
(* verify on a signature of sign with one component replaced.              *)
(***************************************************************************)
\* the signature with its j-th n-byte component replaced (j = 0: left as it is)
tampered(signature, j) ==
    IF j = 0 THEN signature ELSE [signature EXCEPT ![j] = urandom(self.n, 0)[1]]

\* the components tried: r, the first revealed FORS secret, the first
\* authentication-path node (if there is one), the first and the last WOTS+ value
tamper_positions ==
    {0, 1, 2, 1 + self.k * (1 + log2(self.t)) + 1, sig_len \div self.n}
        \cup (IF log2(self.t) > 0 THEN {3} ELSE {})

VerifyTampered ==
    /\ private_key # <<>>
    /\ helper_call.fn = ""
    /\ \E signed \in Messages, m \in Messages :
          LET sig == sign(signed, private_key)
          IN /\ sig.raised = ""
             /\ Len(sig.value) = sig_len \div self.n
             /\ \E j \in tamper_positions :
                   LET res == verify(m, tampered(sig.value, j), public_key)
                   IN helper_call' = [fn |-> "verify_tampered", signed |-> signed,
                                      message |-> m, position |-> j,
                                      raised |-> res.raised, value |-> res.value]
    /\ UNCHANGED <<self, private_key, public_key, sign_log, sign_call, verify_call,
                   wots_test, fors_test>>

NextTampered == GenerateKeypair \/ VerifyTampered

SpecTampered == Init /\ [][NextTampered]_vars

(***************************************************************************)
(* _fors_sign and _fors_verify called on their own.                        *)
(***************************************************************************)
\* _fors_sign(msg, sk_seed, pk_seed, addr): the exception raised, the length returned
fors_sign_call(msg, sk_seed, pk_seed, addr) ==
    IF fors_sign_raises(msg)
    THEN [raised |-> "ValueError", value_len |-> 0]
    ELSE [raised |-> "", value_len |-> BLen(fors_sign(msg, sk_seed, pk_seed, addr))]

\* a variant of _fors_verify that rejects a signature of another length
fors_verify_length_checked(msg, signature, pk_seed, addr) ==
    IF BLen(signature) # self.k * (1 + log2(self.t)) * self.n
    THEN [raised |-> "ValueError", value_len |-> 0]
    ELSE IF fors_verify_raises(msg)
    THEN [raised |-> "IndexError", value_len |-> 0]
    ELSE [raised |-> "", value_len |-> BLen(fors_verify(msg, signature, pk_seed, addr))]

\* _fors_verify(msg, signature, pk_seed, addr): the exception raised, the length returned
fors_verify_call(msg, signature, pk_seed, addr) ==
    IF fors_verify_raises(msg)
    THEN [raised |-> "IndexError", value_len |-> 0]
    ELSE [raised |-> "", value_len |-> BLen(fors_verify(msg, signature, pk_seed, addr))]

\* a FORS signature of the expected length with arbitrary content
junk_fors_signature ==
    [i \in 1..(self.k * (1 + log2(self.t))) |-> urandom(self.n, 0)[1]]

ForsSignCall ==
    /\ helper_call.fn = ""
    /\ \E a \in 1..MaxSeed, c \in 1..MaxSeed, len \in 0..MaxDigestLen :
       \E msg \in Digests(len) :
          LET res == fors_sign_call(msg, urandom(self.n, a), urandom(self.n, c), ADDR_fors)
          IN helper_call' = [fn |-> "fors_sign", msg |-> msg,
                             sk_seed |-> urandom(self.n, a),
                             pk_seed |-> urandom(self.n, c),
                             raised |-> res.raised, value_len |-> res.value_len]
    /\ UNCHANGED <<self, private_key, public_key, sign_log, sign_call, verify_call,
                   wots_test, fors_test>>

ForsVerifyCall ==
    /\ helper_call.fn = ""
    /\ \E c \in 1..MaxSeed, len \in 0..MaxDigestLen :
       \E msg \in Digests(len) :
          LET res == fors_verify_call(msg, junk_fors_signature, urandom(self.n, c),
                                      ADDR_fors)
          IN helper_call' = [fn |-> "fors_verify", msg |-> msg,
                             pk_seed |-> urandom(self.n, c),
                             raised |-> res.raised, value_len |-> res.value_len]
    /\ UNCHANGED <<self, private_key, public_key, sign_log, sign_call, verify_call,
                   wots_test, fors_test>>

NextForsCalls == ForsSignCall \/ ForsVerifyCall

SpecForsCalls == InitFors /\ [][NextForsCalls]_vars

(***************************************************************************)
(* The constructor called with any tree size t, a power of two or not.     *)
(***************************************************************************)
TreeSizeParams == {Construct(n, DefaultH, DefaultD, k, MaxW, t, robust) :
    n \in 1..MaxN, k \in 1..MaxK, t \in 1..Pow(2, MaxForsHeight), robust \in BOOLEAN}

InitTreeSize == self \in TreeSizeParams /\ Idle

SpecTreeSize == InitTreeSize /\ [][NextKeygen]_vars

(***************************************************************************)
(* sign and verify called with a key or a signature of another length.     *)
(***************************************************************************)
\* a key of c * n bytes cut from (or one block longer than) a generated key
resized_key(key, c) ==
    IF c * self.n <= BLen(key) THEN Slice(key, 0, c * self.n)
    ELSE Cat(key, urandom(self.n, 0))

\* a signature d blocks longer (d = 1) or shorter (d = -1) than sig_len
resized_signature(d) ==
    IF d < 0 THEN Slice(junk_signature, 0, sig_len + d * self.n)
    ELSE IF d > 0 THEN Cat(junk_signature, urandom(self.n, 0))
    ELSE junk_signature

SignResized ==
    /\ private_key # <<>>
    /\ helper_call.fn = ""
    /\ \E m \in Messages, c \in {0, 1, 2, 3, 5} :
          LET sk == resized_key(private_key, c)
              res == sign(m, sk)
          IN helper_call' = [fn |-> "sign", message |-> m, key_len |-> BLen(sk),
                             raised |-> res.raised, value_len |-> BLen(res.value)]
    /\ UNCHANGED <<self, private_key, public_key, sign_log, sign_call, verify_call,
                   wots_test, fors_test>>

VerifyResized ==
    /\ public_key # <<>>
    /\ helper_call.fn = ""
    /\ \E m \in Messages, c \in 0..3, d \in {-1, 0, 1} :
          /\ c # 2 \/ d # 0
          /\ LET pk == resized_key(public_key, c)
                 signature == resized_signature(d)
                 res == verify(m, signature, pk)
             IN helper_call' = [fn |-> "verify", message |-> m, key_len |-> BLen(pk),
                                signature_len |-> BLen(signature),
                                raised |-> res.raised, value |-> res.value]
    /\ UNCHANGED <<self, private_key, public_key, sign_log, sign_call, verify_call,
                   wots_test, fors_test>>

NextResized == GenerateKeypair \/ SignResized \/ VerifyResized

SpecResized == Init /\ [][NextResized]_vars

(***************************************************************************)
(* _chain on its own.                                                      *)
(***************************************************************************)
\* _chain(x, i, steps, pk_seed, addr): the exception raised and the value returned
chain_call(x, i, steps, pk_seed, addr) ==
    IF chain_raises(i, steps)
    THEN [raised |-> "ValueError", value |-> <<>>]
    ELSE [raised |-> "", value |-> chain(x, i, steps, pk_seed, addr)]

ChainCall ==
    /\ helper_call.fn = ""
    /\ \E a \in 1..MaxSeed, c \in 1..MaxSeed, i \in 0..(self.w + 1),
          steps \in 0..(self.w + 1) :
          LET res == chain_call(urandom(self.n, a), i, steps, urandom(self.n, c),
                                chain_addr(ADDR_test_wots, 0))
          IN helper_call' = [fn |-> "chain", x |-> urandom(self.n, a), i |-> i,
                             steps |-> steps, pk_seed |-> urandom(self.n, c),
                             addr |-> chain_addr(ADDR_test_wots, 0),
                             raised |-> res.raised, value |-> res.value]
    /\ UNCHANGED <<self, private_key, public_key, sign_log, sign_call, verify_call,
                   wots_test, fors_test>>

NextChain == ChainCall

SpecChain == InitWots /\ [][NextChain]_vars

(***************************************************************************)
(* _compute_auth_path and _compute_root on trees of any number of leaves.  *)
(***************************************************************************)
SpecOddTree == InitTreeSize /\ [][NextAuthPath]_vars

(***************************************************************************)
(* _fors_sign and _fors_verify on their own, for any tree size t.          *)
(***************************************************************************)
SpecForsAnySize == InitTreeSize /\ [][NextForsCalls]_vars

(***************************************************************************)
(* _fors_verify on a signature of _fors_sign cut short.                    *)
(***************************************************************************)
\* the lengths tried: nothing left, the first secret only, the last
\* authentication node or secret missing, the last byte missing
truncated_lengths(len) == {0, self.n, len - self.n, len - 1} \cap 0..(len - 1)

ForsVerifyTruncated ==
    /\ helper_call.fn = ""
    /\ \E len \in 0..MaxDigestLen :
       \E msg \in Digests(len) :
          /\ ~fors_sign_raises(msg)
          /\ LET sk_seed == urandom(self.n, 1)
                 pk_seed == urandom(self.n, 2)
                 fors_sig == fors_sign(msg, sk_seed, pk_seed, ADDR_fors)
             IN \E cut \in truncated_lengths(BLen(fors_sig)) :
                   LET res == fors_verify_call(msg, Slice(fors_sig, 0, cut), pk_seed,
                                               ADDR_fors)
                   IN helper_call' =
                          [fn |-> "fors_verify_truncated", msg |-> msg,
                           signature_len |-> cut, raised |-> res.raised,
                           value_len |-> res.value_len,
                           is_fors_pk |->
                               (res.raised = ""
                                /\ fors_verify(msg, Slice(fors_sig, 0, cut), pk_seed,
                                               ADDR_fors)
                                       = fors_pk_gen(sk_seed, pk_seed, ADDR_fors))]
    /\ UNCHANGED <<self, private_key, public_key, sign_log, sign_call, verify_call,
                   wots_test, fors_test>>

NextTruncated == ForsVerifyTruncated

SpecTruncated == InitFors /\ [][NextTruncated]_vars

(***************************************************************************)
(* The recursion of _compute_root and _compute_auth_path, one call of the  *)
(* function on itself per step.                                            *)
(***************************************************************************)
\* _compute_root is entered on a list of t nodes
RootEnter ==
    /\ helper_call.fn = ""
    /\ \E a \in 1..MaxSeed, c \in 1..MaxSeed :
          LET taddr == tree_addr(ADDR_test_fors, 0)
          IN helper_call' = [fn |-> "compute_root",
                             nodes |-> [j \in 1..self.t |-> urandom(self.n, a + j)],
                             pk_seed |-> urandom(self.n, c),
                             addr |-> Cat(taddr, Bytes(B_node)),
                             leaf_idx |-> 0, depth |-> 0]
    /\ UNCHANGED <<self, private_key, public_key, sign_log, sign_call, verify_call,
                   wots_test, fors_test>>

\* _compute_auth_path is entered on a list of t nodes and a leaf index
AuthPathEnter ==
    /\ helper_call.fn = ""
    /\ \E a \in 1..MaxSeed, c \in 1..MaxSeed, leaf_idx \in 0..(self.t - 1) :
          LET taddr == tree_addr(ADDR_test_fors, 0)
          IN helper_call' = [fn |-> "compute_auth_path",
                             nodes |-> [j \in 1..self.t |-> urandom(self.n, a + j)],
                             pk_seed |-> urandom(self.n, c),
                             addr |-> Cat(taddr, Bytes(B_node)),
                             leaf_idx |-> leaf_idx, depth |-> 0]
    /\ UNCHANGED <<self, private_key, public_key, sign_log, sign_call, verify_call,
                   wots_test, fors_test>>

\* the function calls itself on the next level, unless a single node is left
Recurse ==
    /\ helper_call.fn \in {"compute_root", "compute_auth_path"}
    /\ Len(helper_call.nodes) # 1
    /\ helper_call.depth <= self.fors_height
    /\ helper_call' =
           [helper_call EXCEPT
               !.nodes = IF helper_call.fn = "compute_root"
                         THEN root_next_level(@, helper_call.pk_seed, helper_call.addr)
                         ELSE auth_next_level(@, helper_call.pk_seed, helper_call.addr),
               !.addr = Cat(@, Bytes(B_up)),
               !.leaf_idx = @ \div 2,
               !.depth = @ + 1]
    /\ UNCHANGED <<self, private_key, public_key, sign_log, sign_call, verify_call,
                   wots_test, fors_test>>

NextRecursion == RootEnter \/ AuthPathEnter \/ Recurse

\* the instances without masks: the lists the recursion passes through have the
\* same lengths with and without them
InitRecursion == self \in {p \in ForsParams : ~p.robust} /\ Idle

\* a call that was entered runs on: the functions are synchronous
SpecRecursion == InitRecursion /\ [][NextRecursion]_vars /\ WF_vars(Recurse)

\* C16: with t = 1, fors_height = 0 and message_digest_len = 0, every FORS tree is
\* a single leaf that is its own root, every authentication path is empty, the
\* FORS signature is exactly k * n bytes, and sign and verify complete without
\* error, on the empty digest too, with verify(sign(...)) equal to pk_gen(...)
C16_SingleLeafTrees ==
    self.t = 1 =>
        /\ self.fors_height = 0
        /\ self.message_digest_len = 0
        /\ fors_test.called =>
              /\ fors_test.raised = ""
              /\ fors_test.sig_len = self.k * self.n
              /\ fors_test.result = TRUE
              /\ \A i \in 0..(self.k - 1) :
                    LET taddr == tree_addr(fors_test.addr, i)
                        leaves == fors_leaves(fors_test.sk_seed, fors_test.pk_seed, taddr)
                    IN /\ Len(leaves) = 1
                       /\ compute_root(leaves, fors_test.pk_seed,
                                       Cat(taddr, Bytes(B_node))) = leaves[1]
                       /\ compute_auth_path(0, leaves, fors_test.pk_seed,
                                            Cat(taddr, Bytes(B_node))) = <<>>

\* C16 happens: several single-leaf trees were signed and verified on the empty digest
C16_Witness ==
    /\ self.t = 1
    /\ self.k = MaxK
    /\ fors_test.called
    /\ fors_test.message = <<>>
    /\ fors_test.raised = ""
    /\ fors_test.sig_len = self.k * self.n
    /\ fors_test.result = TRUE

(***************************************************************************)
(* Properties of the facade: of key generation under SpecKeygen, of        *)
(* signing under SpecSign, of the whole facade under Spec.                 *)
(***************************************************************************)
sk_seed_of(sk) == Slice(sk, 0, self.n)
sk_prf_of(sk) == Slice(sk, self.n, 2 * self.n)
pk_seed_of(sk) == Slice(sk, 2 * self.n, 3 * self.n)
root_of(sk) == Slice(sk, 3 * self.n, 4 * self.n)

\* verify was called on message m with the signature sign returned for m
HonestVerify(m) ==
    /\ verify_call.called
    /\ verify_call.message = m
    /\ sign_log[m].called
    /\ sign_log[m].raised = ""
    /\ verify_call.signature = sign_log[m].value

\* C1: for every key pair of generate_keypair and every message m for which sign
\* returned a signature, verify(m, sign(m, sk), pk) returns true
C1_RoundTrip ==
    \A m \in Messages :
        HonestVerify(m) => verify_call.raised = "" /\ verify_call.value = TRUE

\* C2: with the constructor defaults, fors_height = 6 and message_digest_len = 7,
\* sign("abc", sk) completes without raising, verify of its signature returns
\* true on "abc" and false on "abd"
C2_DefaultScenario ==
    self = DefaultParams =>
        /\ self.fors_height = 6
        /\ self.message_digest_len = 7
        /\ (sign_call.called /\ sign_call.message = MsgAbc => sign_call.raised = "")
        /\ (HonestVerify(MsgAbc) => verify_call.raised = "" /\ verify_call.value = TRUE)
        /\ (/\ verify_call.called
            /\ verify_call.message = MsgAbd
            /\ sign_log[MsgAbc].called
            /\ sign_log[MsgAbc].raised = ""
            /\ verify_call.signature = sign_log[MsgAbc].value
            => verify_call.raised = "" /\ verify_call.value = FALSE)

\* C5: a repeated call sign(m, sk) returns what the first call on m returned,
\* whatever was signed or verified in between, and the randomizer that heads a
\* signature is prf(sk_prf, "randomized", m)
C5_SignDeterministic ==
    /\ (sign_call.called /\ sign_call.repeat =>
            /\ sign_call.raised = sign_log[sign_call.message].raised
            /\ sign_call.value = sign_log[sign_call.message].value)
    /\ (sign_call.called /\ sign_call.raised = "" =>
            Slice(sign_call.value, 0, self.n)
                = prf(sk_prf_of(private_key), Bytes(B_randomized), sign_call.message))

\* C5 happens: a message is signed again after the other message was signed,
\* and sign returned both times
C5_Witness ==
    /\ sign_call.called
    /\ sign_call.repeat
    /\ sign_call.raised = ""
    /\ \A m \in Messages : sign_log[m].called
    /\ verify_call.called

\* C30: for a keypair from generate_keypair and sig = sign(m, sk), verify(m, sig,
\* pk) recomputes the message digest and the FORS public value that sign
\* computed, and the WOTS+ public key it derives from the signature equals
\* _wots_pk_gen(sk_seed, pk_seed, b"SPHINCS+_wots")
C30_IntermediateAgreement ==
    \A m \in Messages :
        HonestVerify(m) =>
            LET sk == private_key
                pk == public_key
                parts == verify_parts(verify_call.signature)
                signed_digest == h_msg(randomizer(sk_prf_of(sk), m), pk_seed_of(sk),
                                       root_of(sk), m)
                signed_fors_pk ==
                    fors_verify(signed_digest,
                                fors_sign(signed_digest, sk_seed_of(sk), pk_seed_of(sk),
                                          ADDR_fors),
                                pk_seed_of(sk), ADDR_fors)
                message_digest == h_msg(parts.r, Slice(pk, 0, self.n),
                                        Slice(pk, self.n, 2 * self.n), m)
                fors_pk == fors_verify(message_digest, parts.fors_sig,
                                       Slice(pk, 0, self.n), ADDR_fors)
                wots_pk == wots_pk_from_sig(parts.wots_sig, fors_pk,
                                            Slice(pk, 0, self.n), ADDR_wots)
            IN /\ verify_call.raised = ""
               /\ message_digest = signed_digest
               /\ fors_pk = signed_fors_pk
               /\ wots_pk = wots_pk_gen(sk_seed_of(sk), pk_seed_of(sk), ADDR_wots)

\* C25: generate_keypair, sign and verify leave every parameter and derived
\* constant of the instance unchanged, whether they return or raise; sign and
\* verify leave the keys unchanged, and a sign call gives the result the first
\* call on that message gave, whatever calls came in between
C25_Stateless ==
    [][/\ self' = self
       /\ (private_key # <<>> =>
              private_key' = private_key /\ public_key' = public_key)
       /\ (sign_call'.called =>
              /\ sign_call'.raised = sign_log'[sign_call'.message].raised
              /\ sign_call'.value = sign_log'[sign_call'.message].value)]_vars

\* C25 happens: a sign call that raised was repeated after a verify call that raised
C25_Witness ==
    /\ sign_call.called
    /\ sign_call.repeat
    /\ sign_call.raised # ""
    /\ verify_call.called
    /\ verify_call.raised # ""

\* C6: verify returns a boolean and raises nothing, for every message and every
\* signature of the expected length, valid or not
C6_VerifyNeverRaises == verify_call.called => verify_call.raised = ""

\* C7: message_digest_len = ceil(k * fors_height / 8), so the digest of _h_msg
\* has at least k * fors_height bits
C7_DigestLenIsCeil ==
    /\ self.message_digest_len = (self.k * self.fors_height + 7) \div 8
    /\ self.message_digest_len * 8 >= self.k * self.fors_height
    /\ \A m \in Messages :
          BLen(h_msg(urandom(self.n, 1), urandom(self.n, 1), urandom(self.n, 1), m)) * 8
              >= self.k * self.fors_height

\* C9: a signature sign returns is r || FORS part || WOTS part of
\* n + k*(1+fors_height)*n + wots_len*n bytes, r = prf(sk_prf, "randomized", m),
\* and verify slices it into exactly these three parts
C9_SignatureLayout ==
    sign_call.called /\ sign_call.raised = "" =>
        LET sig == sign_call.value
            parts == verify_parts(sig)
            r == prf(sk_prf_of(private_key), Bytes(B_randomized), sign_call.message)
            digest == h_msg(r, pk_seed_of(private_key), root_of(private_key),
                            sign_call.message)
            fors_sig == fors_sign(digest, sk_seed_of(private_key),
                                  pk_seed_of(private_key), ADDR_fors)
            fors_pk == fors_verify(digest, fors_sig, pk_seed_of(private_key), ADDR_fors)
            wots_sig == wots_sign(fors_pk, sk_seed_of(private_key),
                                  pk_seed_of(private_key), ADDR_wots)
        IN /\ BLen(sig) = self.n + self.k * (1 + self.fors_height) * self.n
                              + self.wots_len * self.n
           /\ BLen(r) = self.n
           /\ BLen(fors_sig) = self.k * (1 + self.fors_height) * self.n
           /\ BLen(wots_sig) = self.wots_len * self.n
           /\ parts.r = r
           /\ parts.fors_sig = fors_sig
           /\ parts.wots_sig = wots_sig
           /\ sig = Cat(Cat(r, fors_sig), wots_sig)

\* C9 happens: sign returned a signature under an instance with FORS trees of
\* height 2, so the FORS part holds secrets and authentication paths
C9_Witness ==
    /\ sign_call.called
    /\ sign_call.raised = ""
    /\ self.fors_height = MaxForsHeight
    /\ BLen(sign_call.value) > self.n

\* C10: the private key is sk_seed || sk_prf || pk_seed || root of 4n bytes, the
\* public key is pk_seed || root of 2n bytes and ends the private key, and root
\* is the FORS public value of (sk_seed, pk_seed) under the root address
C10_KeyLayout ==
    private_key # <<>> =>
        /\ BLen(private_key) = 4 * self.n
        /\ BLen(public_key) = 2 * self.n
        /\ Slice(private_key, 2 * self.n, 4 * self.n) = public_key
        /\ \E a \in 1..MaxSeed, b \in 1..MaxSeed, c \in 1..MaxSeed :
              Slice(private_key, 0, 3 * self.n)
                  = Cat(Cat(urandom(self.n, a), urandom(self.n, b)), urandom(self.n, c))
        /\ Slice(public_key, 0, self.n) = pk_seed_of(private_key)
        /\ Slice(public_key, self.n, 2 * self.n)
               = fors_pk_gen(sk_seed_of(private_key), pk_seed_of(private_key), ADDR_root)

\* C10 happens: a key pair was generated with sk_seed and sk_prf drawn
\* differently, under an instance with FORS trees of height 2
C10_Witness ==
    /\ private_key # <<>>
    /\ sk_seed_of(private_key) # sk_prf_of(private_key)
    /\ self.fors_height = MaxForsHeight

C4_ForsLaw ==
    fors_test.called /\ BLen(fors_test.message) * 8 >= self.k * self.fors_height =>
        /\ fors_test.raised = ""
        /\ fors_test.result = TRUE

\* C8: the thash calls at the different levels of one authentication-path fold
\* use pairwise different addresses
C8_FoldAddressesDistinct ==
    fors_test.called /\ fors_test.raised = "" =>
        \A i \in 1..self.k :
            \A l1 \in 1..self.fors_height, l2 \in 1..self.fors_height :
                l1 # l2 => fors_test.fold_addrs[i][l1] # fors_test.fold_addrs[i][l2]

(***************************************************************************)
(* Properties of _chain, under SpecChain.                                  *)
(***************************************************************************)
\* f applied steps times to x at positions start, start + 1, ..., start + steps - 1
RECURSIVE f_iterated(_, _, _, _, _)
f_iterated(x, start, steps, pk_seed, addr) ==
    IF steps <= 0 THEN x
    ELSE f(f_iterated(x, start, steps - 1, pk_seed, addr), pk_seed,
           Cat(addr, Bytes(ToBytes(start + steps - 1, 1))))

\* C27: for a, b >= 0 with a + b <= w - 1, chain(chain(x, 0, a), a, b) equals
\* chain(x, 0, a + b): step j hashes under the address extended with position
\* j wherever the call started
C27_ChainComposition ==
    helper_call.fn = "chain" /\ helper_call.i + helper_call.steps <= self.w - 1 =>
        /\ ~chain_raises(0, helper_call.i)
        /\ ~chain_raises(helper_call.i, helper_call.steps)
        /\ ~chain_raises(0, helper_call.i + helper_call.steps)
        /\ chain(chain(helper_call.x, 0, helper_call.i, helper_call.pk_seed,
                       helper_call.addr),
                 helper_call.i, helper_call.steps, helper_call.pk_seed, helper_call.addr)
               = chain(helper_call.x, 0, helper_call.i + helper_call.steps,
                       helper_call.pk_seed, helper_call.addr)

\* C27 happens: both parts of the composition are at least one step long
C27_Witness ==
    /\ helper_call.fn = "chain"
    /\ helper_call.i >= 1
    /\ helper_call.steps >= 1
    /\ helper_call.i + helper_call.steps = self.w - 1
    /\ helper_call.raised = ""

\* C29: for every w the constructor accepts and every digest, each of the
\* wots_len chain lengths of _wots_sign and _wots_pk_from_sig (message digits and
\* checksum digits) lies in 0..w-1, so chain is never called with a negative
\* step count, never advances a value beyond position w - 1, and never raises
C29_DigitBounds ==
    wots_test.called =>
        LET signed == wots_sign_lengths(wots_test.message)
            derived == wots_pk_from_sig_lengths(wots_test.message)
        IN /\ wots_test.lengths = signed
           /\ Len(signed) = self.wots_len /\ Len(derived) = self.wots_len
           /\ \A i \in 1..self.wots_len :
                 /\ signed[i] \in 0..(self.w - 1)
                 /\ derived[i] \in 0..(self.w - 1)
                 /\ self.w - 1 - derived[i] >= 0
                 /\ ~chain_raises(0, signed[i])
                 /\ ~chain_raises(derived[i], self.w - 1 - derived[i])
           /\ wots_test.raised = ""

\* C11: chain fails with a range error whenever start + steps > w - 1, also for
\* steps = 0 and for start + steps = w, and otherwise returns f applied steps
\* times at positions start .. start + steps - 1
C11_ChainRange ==
    helper_call.fn = "chain" =>
        IF helper_call.i + helper_call.steps > self.w - 1
        THEN helper_call.raised = "ValueError"
        ELSE /\ helper_call.raised = ""
             /\ helper_call.value = f_iterated(helper_call.x, helper_call.i,
                                               helper_call.steps, helper_call.pk_seed,
                                               helper_call.addr)

(***************************************************************************)
(* Properties of sign and verify on inputs of another length, under        *)
(* SpecResized.                                                            *)
(***************************************************************************)
\* C12: sign with a private key whose length is not 4n, and verify with a public
\* key whose length is not 2n or a signature whose length is not
\* n + k*(1+fors_height)*n + wots_len*n, fail with an error and return nothing
C12_FormatErrors ==
    /\ helper_call.fn = "sign" /\ helper_call.key_len # 4 * self.n
           => helper_call.raised # ""
    /\ helper_call.fn = "verify"
           /\ (helper_call.key_len # 2 * self.n \/ helper_call.signature_len # sig_len)
           => helper_call.raised # ""

(***************************************************************************)
(* Properties of the constructor, under SpecTreeSize.                      *)
(***************************************************************************)
\* C13: a tree size t that is not a power of two is rejected by the constructor,
\* so every instance that exists satisfies t = 2^fors_height
C13_TreeSizePowerOfTwo == self.t = Pow(2, self.fors_height)

(***************************************************************************)
(* Properties of _fors_sign and _fors_verify on short digests, under       *)
(* SpecForsCalls.                                                          *)
(***************************************************************************)
\* C14: on a digest with fewer than k * fors_height bits both _fors_sign and
\* _fors_verify fail with the digest-length error, the ValueError that
\* _fors_sign raises, and return nothing
C14_ShortDigestError ==
    helper_call.fn \in {"fors_sign", "fors_verify"}
        /\ BLen(helper_call.msg) * 8 < self.k * self.fors_height
        => helper_call.raised = "ValueError"

RECURSIVE int_from_bytes(_)
int_from_bytes(b) ==
    IF b = <<>> THEN 0 ELSE 256 * int_from_bytes(SubSeq(b, 1, Len(b) - 1)) + b[Len(b)]

\* the checksum of the message digits among the chain lengths D
csum_of(D) == SumSeq([i \in 1..self.wots_len1 |-> self.w - 1 - D[i]])

\* C17: for two distinct n-byte digests the full digit vectors D and D' (message
\* digits, then checksum digits) have a position i with D'[i] < D[i]
C17_NoDomination ==
    helper_call.fn = "wots_lengths" /\ helper_call.msg # helper_call.other_msg =>
        /\ Len(helper_call.lengths) = Len(helper_call.other_lengths)
        /\ \E i \in 1..Len(helper_call.lengths) :
              helper_call.other_lengths[i] < helper_call.lengths[i]

\* C18: for every power of two w and every n, 0 <= csum <= wots_len1 * (w - 1)
\* < w^wots_len2, and the wots_len2 checksum digits, least significant first,
\* recombine to csum
C18_ChecksumLossless ==
    helper_call.fn = "wots_lengths" =>
        LET D == helper_call.lengths
            csum == csum_of(D)
        IN /\ Len(D) = self.wots_len1 + self.wots_len2
           /\ 0 <= csum
           /\ csum <= self.wots_len1 * (self.w - 1)
           /\ self.wots_len1 * (self.w - 1) < Pow(self.w, self.wots_len2)
           /\ \A i \in 1..self.wots_len2 : D[self.wots_len1 + i] \in 0..(self.w - 1)
           /\ SumSeq([i \in 1..self.wots_len2 |->
                         D[self.wots_len1 + i] * Pow(self.w, i - 1)]) = csum

\* C18 happens: under the largest base a checksum that needs more than one digit
C18_Witness ==
    /\ helper_call.fn = "wots_lengths"
    /\ self.w = Pow(2, MaxLogW)
    /\ csum_of(helper_call.lengths) > self.w - 1
    /\ helper_call.lengths[self.wots_len1 + 1] > 0
    /\ helper_call.lengths[self.wots_len1 + 2] > 0

\* C19: for every n-byte digest and every power of two w, _base_w returns exactly
\* wots_len1 digits in 0..w-1, most significant first, that recombine to the
\* integer of the digest
C19_DigitsDetermineDigest ==
    helper_call.fn = "wots_lengths" =>
        LET D == helper_call.digits
        IN /\ Len(D) = self.wots_len1
           /\ \A i \in 1..Len(D) : D[i] \in 0..(self.w - 1)
           /\ SumSeq([i \in 1..Len(D) |-> D[i] * Pow(self.w, Len(D) - i)])
                  = int_from_bytes(ByteList(helper_call.msg))

(***************************************************************************)
(* Properties of _compute_auth_path, under SpecAuthPath.                   *)
(***************************************************************************)
\* x XOR 1
xor_one(x) == IF x % 2 = 0 THEN x + 1 ELSE x - 1

\* C20: for a tree of t = 2^fors_height leaves and every leaf_idx in 0..t-1,
\* _compute_auth_path returns exactly fors_height nodes ordered leaf to root, the
\* i-th being the node at index (leaf_idx >> i) XOR 1 of level i of the tree that
\* _compute_root builds over the same leaves and address
C20_AuthPathShape ==
    helper_call.fn = "auth_path" =>
        /\ Len(helper_call.path) = self.fors_height
        /\ Len(helper_call.levels) = self.fors_height + 1
        /\ helper_call.levels[self.fors_height + 1] = <<helper_call.root>>
        /\ \A i \in 0..(self.fors_height - 1) :
              /\ Len(helper_call.levels[i + 1]) = Pow(2, self.fors_height - i)
              /\ helper_call.path[i + 1]
                     = helper_call.levels[i + 1][xor_one(ShiftRight(helper_call.leaf_idx, i)) + 1]

\* C20 happens: the path of the last leaf of the tallest tree
C20_Witness ==
    /\ helper_call.fn = "auth_path"
    /\ self.fors_height = MaxForsHeight
    /\ helper_call.leaf_idx = self.t - 1
    /\ Len(helper_call.path) = MaxForsHeight
    /\ helper_call.path[MaxForsHeight] = helper_call.levels[MaxForsHeight][1]

(***************************************************************************)
(* Properties of the tree functions on any number of leaves, under         *)
(* SpecOddTree.                                                            *)
(***************************************************************************)
\* addr followed by i times b'up'
RECURSIVE up_addr(_, _)
up_addr(addr, i) == IF i <= 0 THEN addr ELSE Cat(up_addr(addr, i - 1), Bytes(B_up))

\* the address of the tree of AuthPathCall
call_addr == Cat(tree_addr(ADDR_test_fors, 0), Bytes(B_node))

\* C21: a level with an odd number of nodes is completed by duplicating its last
\* node, which is hashed with itself into the last node of the next level, and
\* folding the authentication path of any leaf from that leaf reproduces the
\* root, for a leaf sequence of any length >= 1
C21_OddTailDuplicated ==
    helper_call.fn = "auth_path" =>
        /\ \A i \in 1..(Len(helper_call.levels) - 1) :
              LET level == helper_call.levels[i]
                  next == helper_call.levels[i + 1]
              IN Len(level) % 2 = 1 =>
                     next[Len(next)] = thash(level[Len(level)], level[Len(level)],
                                             helper_call.pk_seed,
                                             Cat(up_addr(call_addr, i - 1),
                                                 Bytes(ToBytes(Len(level) - 1, 2))))
        /\ compute_root_from_auth(helper_call.leaf_idx,
                                  helper_call.levels[1][helper_call.leaf_idx + 1],
                                  helper_call.path, helper_call.pk_seed, call_addr)
               = helper_call.root

(***************************************************************************)
(* Properties of the FORS index extraction, under SpecForsAnySize.         *)
(***************************************************************************)
\* the big-endian integer of the bits [i * fors_height, (i + 1) * fors_height)
\* of msg, bit 0 being the most significant bit of byte 0
chunk_int(msg, i) ==
    (int_from_bytes(ByteList(msg))
         \div Pow(2, 8 * BLen(msg) - (i + 1) * self.fors_height))
        % Pow(2, self.fors_height)

\* C22: on a digest of at least k * fors_height bits, index i is the big-endian
\* integer of digest bits [i * fors_height, (i + 1) * fors_height) reduced mod t,
\* every index lies in 0..t-1, and _fors_sign and _fors_verify derive the same
\* index list
C22_IndexExtraction ==
    helper_call.fn \in {"fors_sign", "fors_verify"}
        /\ BLen(helper_call.msg) * 8 >= self.k * self.fors_height
        => /\ helper_call.raised = ""
           /\ fors_sign_indices(helper_call.msg) = fors_verify_indices(helper_call.msg)
           /\ Len(fors_verify_indices(helper_call.msg)) = self.k
           /\ \A i \in 1..self.k :
                 /\ fors_verify_indices(helper_call.msg)[i] \in 0..(self.t - 1)
                 /\ fors_verify_indices(helper_call.msg)[i]
                        = chunk_int(helper_call.msg, i - 1) % self.t

\* C22 happens: _fors_verify ran on a digest with a chunk of value 3 that is
\* reduced mod t = 3 to the index 0
C22_Witness ==
    /\ helper_call.fn = "fors_verify"
    /\ helper_call.raised = ""
    /\ self.k * self.fors_height = 8
    /\ self.t = 3
    /\ chunk_int(helper_call.msg, 0) = 3
    /\ chunk_int(helper_call.msg, 1) = 0
    /\ fors_verify_indices(helper_call.msg)[1] = 0
    /\ fors_verify_indices(helper_call.msg)[3] = 0

(***************************************************************************)
(* Properties of the path fold against the tree, under SpecAuthPath.       *)
(***************************************************************************)
\* C23: at level i the fold of _compute_root_from_auth takes the running node as
\* the right operand of thash, and the authentication node as the left one,
\* exactly when bit i of the leaf index is 1; this is the left/right order in
\* which _compute_root hashed that pair
C23_FoldOrientation ==
    helper_call.fn = "auth_path" =>
        \A i \in 0..(self.fors_height - 1) :
            LET idx == ShiftRight(helper_call.leaf_idx, i)
                p == idx \div 2
                level == helper_call.levels[i + 1]
                node == level[idx + 1]
                auth == helper_call.path[i + 1]
                fold_addr == auth_node_addr(call_addr, helper_call.leaf_idx, i)
                one_step == root_from_auth_loop(helper_call.leaf_idx, node,
                                                SubSeq(helper_call.path, 1, i + 1), i,
                                                helper_call.pk_seed, call_addr)
            IN /\ one_step = IF idx % 2 = 1
                             THEN thash(auth, node, helper_call.pk_seed, fold_addr)
                             ELSE thash(node, auth, helper_call.pk_seed, fold_addr)
               /\ one_step = thash(level[2 * p + 1], level[2 * p + 2],
                                   helper_call.pk_seed, fold_addr)
               /\ helper_call.levels[i + 2][p + 1]
                      = thash(level[2 * p + 1], level[2 * p + 2], helper_call.pk_seed,
                              Cat(up_addr(call_addr, i), Bytes(ToBytes(2 * p, 2))))

\* C23 happens: a leaf index whose bits 0 and 1 differ, in the tallest tree
C23_Witness ==
    /\ helper_call.fn = "auth_path"
    /\ self.fors_height = MaxForsHeight
    /\ helper_call.leaf_idx % 2 = 1
    /\ ShiftRight(helper_call.leaf_idx, 1) % 2 = 0
    /\ Len(helper_call.path) = MaxForsHeight

\* C28: for every tree level i and every leaf index, the address under which the
\* fold of _compute_root_from_auth hashes the pair at level i is byte-identical
\* to the address under which _compute_root and _compute_auth_path hashed that
\* pair, the per-level b'up' suffix included
C28_AddressAgreement ==
    helper_call.fn = "auth_path" =>
        \A i \in 0..(self.fors_height - 1) :
            LET p == ShiftRight(helper_call.leaf_idx, i) \div 2
                level == helper_call.levels[i + 1]
                fold_addr == auth_node_addr(call_addr, helper_call.leaf_idx, i)
            IN /\ fold_addr = Cat(up_addr(call_addr, i), Bytes(ToBytes(2 * p, 2)))
               /\ helper_call.levels[i + 2][p + 1]
                      = thash(level[2 * p + 1], level[2 * p + 2], helper_call.pk_seed,
                              fold_addr)
               /\ auth_next_level(level, helper_call.pk_seed, up_addr(call_addr, i))[p + 1]
                      = thash(level[2 * p + 1], level[2 * p + 2], helper_call.pk_seed,
                              fold_addr)

(***************************************************************************)
(* Properties of _fors_verify on a truncated signature, under              *)
(* SpecTruncated.                                                          *)
(***************************************************************************)
\* C24: _fors_verify called with a signature shorter than k * (1 + fors_height) * n
\* bytes does not raise; it returns an n-byte value that differs from the FORS
\* public value of _fors_pk_gen
C24_TruncatedSilent ==
    helper_call.fn = "fors_verify_truncated"
        /\ helper_call.signature_len < self.k * (1 + self.fors_height) * self.n
        => /\ helper_call.raised = ""
           /\ helper_call.value_len = self.n
           /\ ~helper_call.is_fors_pk

\* C24 happens: the last authentication node of the last tree was missing
C24_Witness ==
    /\ helper_call.fn = "fors_verify_truncated"
    /\ self.fors_height >= 1
    /\ self.k > 1
    /\ helper_call.signature_len = (self.k * (1 + self.fors_height) - 1) * self.n
    /\ helper_call.raised = ""
    /\ ~helper_call.is_fors_pk

(***************************************************************************)
(* Properties of the recursion of the tree functions, under SpecRecursion. *)
(***************************************************************************)
\* the recursion has reached its base case, at recursion depth fors_height
recursion_done ==
    /\ helper_call.fn \in {"compute_root", "compute_auth_path"}
    /\ Len(helper_call.nodes) = 1
    /\ helper_call.depth = self.fors_height

\* C26: for t = 2^fors_height >= 1 the recursion of _compute_root and of
\* _compute_auth_path halves the level at every call, so that every call
\* entered reaches a single node after exactly fors_height recursive levels
C26_Terminates ==
    /\ [](helper_call.fn \in {"compute_root", "compute_auth_path"} =>
              /\ helper_call.depth <= self.fors_height
              /\ Len(helper_call.nodes) = Pow(2, self.fors_height - helper_call.depth))
    /\ (helper_call.fn \in {"compute_root", "compute_auth_path"} ~> recursion_done)

\* C26 happens: _compute_auth_path reached its base case on the tallest tree
C26_Witness ==
    /\ helper_call.fn = "compute_auth_path"
    /\ self.fors_height = MaxForsHeight
    /\ helper_call.depth = MaxForsHeight
    /\ Len(helper_call.nodes) = 1

====
